---- MODULE Spec2Model ----
(***************************************************************************)
(* The OSML compiler core (libosml/src/lib.rs): parse, parse_block,        *)
(* parse_text_line, parse_open_list, parse_close_list; and the build tool  *)
(* (osmlmk/src/make.rs) that runs the compiler on out-of-date sources.     *)
(*                                                                         *)
(* A character is a one-character string (a non-ASCII scalar value is a    *)
(* string naming its code point, e.g. "U+0141").  A line is a sequence of  *)
(* characters, the source is a sequence of lines, and the output String is *)
(* a sequence of characters.  Cursor positions are 0-based as in the code; *)
(* Get(v, p) reads v.get(p).                                               *)
(*                                                                         *)
(* The recursive descent is run with an explicit call stack: one frame per *)
(* active call, the innermost last.  A return pops the frame and leaves    *)
(* the returned tuple in ret, which the caller's next step consumes.       *)
(***************************************************************************)
EXTENDS Integers, Sequences, FiniteSets, TLC

VARIABLES
    ctx,        \* ctx.plugins: the names that have a callback (immutable)
    lines,      \* lines: Vec<Vec<char>>, the split source (immutable)
    stack,      \* the active calls, outermost first
    output,     \* the accumulated output String (moved from call to call)
    ret,        \* <<>> or <<r>>: the value a finished call returned
    result,     \* what parse() has returned so far
    build,      \* whether the binary checks arithmetic overflow; it shows
                \* only at the first overflow and is left open until then
    excluded,   \* osmlmk: config.excluded, the sources osml.ron excludes
    modified,   \* osmlmk: the modification time of each src/<name>.osml
    dist,       \* osmlmk: what dist/<name>.html holds
    osml_cache, \* osmlmk: the sources map persisted in the file osml.cache
    mk          \* osmlmk: the running build command, or idle

pvars == <<ctx, lines, stack, output, ret, result, build>>
mkvars == <<excluded, modified, dist, osml_cache, mk>>
vars == <<pvars, mkvars>>

----------------------------------------------------------------------------
(* The project directory the build tool osmlmk works on (osmlmk/src) *)

\* The source names list_sources finds, and the clock of modification times
SourceNames == {"index", "about"}
MaxTime == 2
Times == 1..MaxTime

\* No entry in a map of the cache, no file in dist/
NoEntry == 0

\* A project after init: sources not yet built, an empty cache, no command
\* running
MkIdle == [pc |-> "idle"]
FreshProject ==
    /\ modified \in [SourceNames -> Times]
    /\ dist = [s \in SourceNames |-> NoEntry]
    /\ osml_cache = [s \in SourceNames |-> NoEntry]
    /\ mk = MkIdle
NoProject ==
    /\ excluded = {}
    /\ modified = [s \in SourceNames |-> 1]
    /\ dist = [s \in SourceNames |-> NoEntry]
    /\ osml_cache = [s \in SourceNames |-> NoEntry]
    /\ mk = MkIdle

----------------------------------------------------------------------------
(* Characters and strings *)

\* The printable ASCII characters U+0020 .. U+007E in code-point order (the
\* grave accent is written U+0060).
Ascii ==
    << " ", "!", "\"", "#", "$", "%", "&", "'", "(", ")", "*", "+", ",", "-",
       ".", "/", "0", "1", "2", "3", "4", "5", "6", "7", "8", "9", ":", ";",
       "<", "=", ">", "?", "@", "A", "B", "C", "D", "E", "F", "G", "H", "I",
       "J", "K", "L", "M", "N", "O", "P", "Q", "R", "S", "T", "U", "V", "W",
       "X", "Y", "Z", "[", "\\", "]", "^", "_", "U+0060", "a", "b", "c", "d", "e",
       "f", "g", "h", "i", "j", "k", "l", "m", "n", "o", "p", "q", "r", "s",
       "t", "u", "v", "w", "x", "y", "z", "{", "|", "}", "~" >>

\* The Unicode scalar value of a character.
CodePoint(c) ==
    CASE c = "\t" -> 9
      [] c = "\n" -> 10
      [] c = "\r" -> 13
      [] c = "U+00E9" -> 233      \* e with acute accent
      [] c = "U+0141" -> 321      \* L with stroke
      [] c = "U+015F" -> 351      \* s with cedilla
      [] c = "U+2028" -> 8232     \* line separator
      [] OTHER -> 31 + (CHOOSE i \in 1..Len(Ascii) : Ascii[i] = c)

\* (c as u8): the cast keeps the low eight bits of the scalar value.
AsU8(c) == CodePoint(c) % 256

is_whitespace(c) == c = "\n" \/ c = "\t" \/ c = "\r" \/ c = " "

is_valid_ch(c) ==
    LET b == AsU8(c)
    IN  (b >= 65 /\ b <= 90) \/ (b >= 97 /\ b <= 122) \/ b = 95

\* v.get(p) for a 0-based p: <<>> is None, <<x>> is Some(x).
Get(v, p) == IF p >= 0 /\ p < Len(v) THEN <<v[p + 1]>> ELSE <<>>

IsSome(o) == o # <<>>
None == <<>>
Some(x) == <<x>>

\* usize::MAX, the value of (0 - 1) in a build without overflow checks.  It
\* is only ever used as an index into lines, where it is out of range.
UsizeMax == -1

S_html_open == <<"<","h","t","m","l",">","<","h","e","a","d",">","<","/","h","e","a","d",">","<","b","o","d","y",">">>
S_html_close == <<"<","/","b","o","d","y",">","<","/","h","t","m","l",">">>
S_div_open == <<"<","d","i","v"," ","c","l","a","s","s","=","'">>
S_div_open_end == <<"'",">">>
S_div_close == <<"<","/","d","i","v",">">>
S_br == <<"<","b","r",">","<","b","r",">">>
S_ul == <<"<","u","l",">">>
S_ol == <<"<","o","l",">">>
S_ul_close == <<"<","/","u","l",">">>
S_ol_close == <<"<","/","o","l",">">>
S_li == <<"<","l","i",">">>
S_li_close == <<"<","/","l","i",">">>

\* format!("<{}>", c) and format!("</{}>", c)
OpenTag(c) == <<"<", c, ">">>
CloseTag(c) == <<"<", "/", c, ">">>

RECURSIVE Repeat(_, _)
Repeat(s, n) == IF n <= 0 THEN <<>> ELSE s \o Repeat(s, n - 1)

----------------------------------------------------------------------------
(* Results and errors *)

Running == [tag |-> "Running"]
Ok(out) == [tag |-> "Ok", output |-> out]
Absolute(line) == <<"Absolute", line>>
Null == <<"Null">>
Err(location, error) == [tag |-> "Err", location |-> location, error |-> error]
\* a panic: an arithmetic overflow in a build with overflow checks
Panicked == [tag |-> "Panic"]

\* parse() returning every error as it is
ParseOutcomeAsIs(e, out) == e
\* What parse() does with an error that reaches it: UnexpectedEnd ends the
\* driver loop normally, every other error is returned.
ParseOutcome(e, out) ==
    IF e.error = "UnexpectedEnd" THEN Ok(out \o S_html_close) ELSE e

----------------------------------------------------------------------------
(* parse_block: reading the name *)

NameOk(name, pos) == [status |-> "Ok", name |-> name, pos |-> pos]
NameErr(e) == [status |-> e, name |-> <<>>, pos |-> 0]

\* NameLoop without the end-of-line case
RECURSIVE NameLoopNoLineEnd(_, _, _)
NameLoopNoLineEnd(vline, pos, name) ==
    IF pos >= Len(vline) THEN NameErr("BlockNameNoEnd")
    ELSE LET c == vline[pos + 1] IN
         IF c = "]" THEN NameOk(name, pos)
         ELSE IF is_whitespace(c) THEN NameOk(name, pos + 1)
         ELSE IF ~is_valid_ch(c) THEN NameErr("BadBlockName")
         ELSE NameLoopNoLineEnd(vline, pos + 1, Append(name, c))

\* The loop (for &(mut c) in vline.iter().skip(pos)) and (no_name_end?).
RECURSIVE NameLoop(_, _, _)
NameLoop(vline, pos, name) ==
    IF pos >= Len(vline) THEN NameErr("BlockNameNoEnd")
    ELSE LET c == vline[pos + 1] IN
         IF c = "]" THEN NameOk(name, pos)
         ELSE LET p == pos + 1
                  atEnd == Len(vline) = p /\ ~is_whitespace(c)
                  name1 == IF atEnd THEN Append(name, c) ELSE name
                  c1 == IF atEnd THEN " " ELSE c
              IN  IF is_whitespace(c1) THEN NameOk(name1, p)
                  ELSE IF ~is_valid_ch(c1) THEN NameErr("BadBlockName")
                  ELSE NameLoop(vline, p, Append(name1, c1))

----------------------------------------------------------------------------
(* The list helpers *)

\* The while loop of parse_list_determine_depth: <<depth, pos>> at its end.
RECURSIVE DepthLoop(_, _, _, _, _)
DepthLoop(vline, pos, listc, depth, start) ==
    IF pos >= Len(vline) THEN <<depth, pos>>
    ELSE LET c == vline[pos + 1]
             start1 == start \/ c = listc
         IN  IF ~start1 THEN DepthLoop(vline, pos + 1, listc, depth, start1)
             ELSE IF c # listc THEN <<depth + 1, pos + 1>>
             ELSE DepthLoop(vline, pos + 1, listc, depth + 1, start1)

parse_list_determine_depth(ls, line, pos, is_ordered) ==
    LET listc == IF is_ordered THEN "=" ELSE "+"
        vl == Get(ls, line)
    IN  IF vl = None THEN None
        ELSE LET r == DepthLoop(vl[1], pos, listc, 0, FALSE)
             IN  IF r[1] = 0 THEN None ELSE Some(r)

\* (line - 1) on a usize
LineMinusOne(line) == IF line = 0 THEN UsizeMax ELSE line - 1

parse_close_list(ls, line, pos, out, is_ordered) ==
    LET cur == parse_list_determine_depth(ls, line, pos, is_ordered)
        prev == parse_list_determine_depth(ls, LineMinusOne(line), 0, is_ordered)
    IN  IF cur = None /\ prev # None
        THEN out \o Repeat(IF is_ordered THEN S_ol_close ELSE S_ul_close,
                           prev[1][1] - 1)
        ELSE out

\* ListManipulations opening depth levels, not depth - 1, for a first line
ListManipulationsOpenDepth(depth, last, is_ordered) ==
    LET open == IF is_ordered THEN S_ol ELSE S_ul
        close == IF is_ordered THEN S_ol_close ELSE S_ul_close
    IN  IF last = None THEN [ok |-> TRUE, tags |-> Repeat(open, depth)]
        ELSE LET last_depth == last[1][1] IN
             IF depth - 1 = last_depth THEN [ok |-> TRUE, tags |-> open]
             ELSE IF depth < last_depth
             THEN [ok |-> TRUE, tags |-> Repeat(close, last_depth - depth)]
             ELSE IF depth # last_depth THEN [ok |-> FALSE, tags |-> <<>>]
             ELSE [ok |-> TRUE, tags |-> <<>>]

\* The manipulations of parse_open_list (Push, Pop) as the tags they emit;
\* ok is FALSE where the code returns InvalidListDepth.
ListManipulations(depth, last, is_ordered) ==
    LET open == IF is_ordered THEN S_ol ELSE S_ul
        close == IF is_ordered THEN S_ol_close ELSE S_ul_close
    IN  IF last = None THEN [ok |-> TRUE, tags |-> Repeat(open, depth - 1)]
        ELSE LET last_depth == last[1][1] IN
             IF depth - 1 = last_depth THEN [ok |-> TRUE, tags |-> open]
             ELSE IF depth < last_depth
             THEN [ok |-> TRUE, tags |-> Repeat(close, last_depth - depth)]
             ELSE IF depth # last_depth THEN [ok |-> FALSE, tags |-> <<>>]
             ELSE [ok |-> TRUE, tags |-> <<>>]

----------------------------------------------------------------------------
(* Frames *)

ParseFrame(line, pos, pc) ==
    [fn |-> "parse", pc |-> pc, line |-> line, pos |-> pos]

\* name is the local String; called_at and out0 are history: the cursor and
\* the length of output at the call.
BlockFrame(line, pos) ==
    [fn |-> "parse_block", pc |-> "entry", line |-> line, pos |-> pos,
     start_line |-> line, last_list_was_ordered |-> None, name |-> <<>>,
     called_at |-> <<line, pos>>, out0 |-> Len(output)]

TextLineFrame(line, pos, allow_lists, start_line, last_list_was_ordered) ==
    [fn |-> "parse_text_line", pc |-> "entry", line |-> line, pos |-> pos,
     allow_lists |-> allow_lists, start_line |-> start_line,
     last_list_was_ordered |-> last_list_was_ordered,
     vline |-> <<>>, bold |-> None, italic |-> None, underline |-> None,
     strikethrough |-> None, line_first_valid_ch |-> TRUE,
     triple_last_c |-> <<" ", " ", " ">>,
     \* history: where the character loop last started or resumed, and the
     \* characters the loop of this call has read
     seg |-> pos, read |-> <<>>]

\* A call of a plugin's callback f(lines, line, pos, output, ctx); out0 is
\* history: the length of output at the call.
CallbackFrame(line, pos) ==
    [fn |-> "callback", pc |-> "entry", line |-> line, pos |-> pos,
     out0 |-> Len(output)]

OpenListFrame(line, pos, is_ordered, start_line) ==
    [fn |-> "parse_open_list", pc |-> "entry", line |-> line, pos |-> pos,
     is_ordered |-> is_ordered, start_line |-> start_line]

Top == stack[Len(stack)]
Rest == SubSeq(stack, 1, Len(stack) - 1)
SetTop(f) == stack' = Append(Rest, f)
Push(f, callee) == stack' = Rest \o <<f, callee>>
Active(fn, pc) ==
    /\ result = Running
    /\ Len(stack) > 0
    /\ Top.fn = fn
    /\ Top.pc = pc

\* An error leaves the call chain through the ? of every caller and
\* reaches parse(), which returns.
Raise(e) ==
    /\ result' = ParseOutcome(e, output)
    /\ UNCHANGED <<mkvars, ctx, lines, stack, output, ret, build>>

Return(r) ==
    /\ stack' = Rest
    /\ ret' = Some(r)

\* The builds an execution may turn out to be when it reaches a subtraction
\* that overflows (underflow = TRUE) or one that does not.
BuildsAt(underflow) ==
    IF underflow /\ build = "open" THEN {"checked", "unchecked"} ELSE {build}
\* With overflow checks the subtraction panics, without them it wraps.
Overflows(b, underflow) == underflow /\ b = "checked"

----------------------------------------------------------------------------
(* parse: the driver *)

\* One iteration of the inner scan (for idx in start_pos..vline.len()).
DriverChar ==
    /\ Active("parse", "scan")
    /\ Top.line < Len(lines)
    /\ Top.pos < Len(lines[Top.line + 1])
    /\ LET c == lines[Top.line + 1][Top.pos + 1] IN
       IF c = "["
       THEN /\ Push(ParseFrame(Top.line, Top.pos + 1, "wait"),
                    BlockFrame(Top.line, Top.pos + 1))
            /\ UNCHANGED <<mkvars, ctx, lines, output, ret, result, build>>
       ELSE IF ~is_whitespace(c)
       THEN Raise(Err(Absolute(Top.line), "ExpectedBlockStart"))
       ELSE /\ SetTop(ParseFrame(Top.line, Top.pos + 1, "scan"))
            /\ UNCHANGED <<mkvars, ctx, lines, output, ret, result, build>>

\* The scan of a line ended without a block start: line += 1; pos = 0.
DriverNextLine ==
    /\ Active("parse", "scan")
    /\ Top.line < Len(lines)
    /\ Top.pos >= Len(lines[Top.line + 1])
    /\ SetTop(ParseFrame(Top.line + 1, 0, "scan"))
    /\ UNCHANGED <<mkvars, ctx, lines, output, ret, result, build>>

\* No line is left: parse_block is called past the last line.
DriverPastEnd ==
    /\ Active("parse", "scan")
    /\ Top.line >= Len(lines)
    /\ Push(ParseFrame(Top.line, Top.pos, "wait"), BlockFrame(Top.line, Top.pos))
    /\ UNCHANGED <<mkvars, ctx, lines, output, ret, result, build>>

\* Ok((nline, npos, noutput)) from parse_block: the loop goes on.
DriverBlockReturned ==
    /\ Active("parse", "wait")
    /\ ret # None
    /\ SetTop(ParseFrame(ret[1].line, ret[1].pos, "scan"))
    /\ ret' = None
    /\ UNCHANGED <<mkvars, ctx, lines, output, result, build>>

----------------------------------------------------------------------------
(* parse_block *)

\* ctx.plugins.get(&name) finding no callback, whatever the name
NoPlugin(name) == FALSE
\* ctx.plugins.get(&name) is Some(f)
HasPlugin(name) == name \in ctx

\* From the call to the callback's call or the first parse_text_line: the
\* line lookup, the name and the dispatch.
BlockEntry ==
    /\ Active("parse_block", "entry")
    /\ LET vl == Get(lines, Top.line) IN
       IF vl = None
       THEN Raise(Err(Null, "UnexpectedEnd"))
       ELSE LET n == NameLoop(vl[1], Top.pos, <<>>) IN
            IF n.status # "Ok"
            THEN Raise(Err(Absolute(Top.line), n.status))
            ELSE IF HasPlugin(n.name)
            THEN /\ Push([Top EXCEPT !.pc = "plugin", !.pos = n.pos,
                                      !.name = n.name],
                         CallbackFrame(Top.line, n.pos))
                 /\ UNCHANGED <<mkvars, ctx, lines, output, ret, result, build>>
            ELSE /\ output' = output \o S_div_open \o n.name \o S_div_open_end
                 /\ SetTop([Top EXCEPT !.pc = "loop", !.pos = n.pos,
                                        !.name = n.name])
                 /\ UNCHANGED <<mkvars, ctx, lines, ret, result, build>>

\* The loop body up to the call of parse_text_line.
BlockCallTextLine ==
    /\ Active("parse_block", "loop")
    /\ Push([Top EXCEPT !.pc = "wait"],
            TextLineFrame(Top.line, Top.pos, TRUE, Top.start_line,
                          Top.last_list_was_ordered))
    /\ UNCHANGED <<mkvars, ctx, lines, output, ret, result, build>>

\* The loop body after parse_text_line returned; the block's return when
\* done.
BlockTextLineReturned ==
    /\ Active("parse_block", "wait")
    /\ ret # None
    /\ LET r == ret[1] IN
       IF r.done
       THEN /\ output' = output \o S_div_close
            /\ Return([from |-> Top, line |-> r.line, pos |-> r.pos])
       ELSE /\ SetTop([Top EXCEPT !.pc = "loop", !.line = r.line,
                                  !.pos = r.pos,
                                  !.last_list_was_ordered =
                                      r.last_list_was_ordered])
            /\ ret' = None
            /\ UNCHANGED output
    /\ UNCHANGED <<mkvars, ctx, lines, result, build>>

\* The callback's result is the result of parse_block.
BlockCallbackReturned ==
    /\ Active("parse_block", "plugin")
    /\ ret # None
    /\ Return([from |-> Top, line |-> ret[1].line, pos |-> ret[1].pos])
    /\ UNCHANGED <<mkvars, ctx, lines, output, result, build>>

\* What a callback writes
S_plugin == <<"<", "h", "r", ">">>

\* A callback is code of the caller of parse(): it may return any cursor,
\* output and error.  Here it returns the cursor it was given or the end of
\* its line, with output it appended to or left alone, or an error.
CallbackCursors(f) == {f.pos, Len(lines[f.line + 1])}
CallbackErrors(f) == {Err(Absolute(f.line), "StrayBackslash")}

Callback ==
    /\ Active("callback", "entry")
    /\ \/ \E p \in CallbackCursors(Top), o \in {output, output \o S_plugin} :
            /\ output' = o
            /\ Return([from |-> Top, line |-> Top.line, pos |-> p])
            /\ UNCHANGED <<mkvars, ctx, lines, result, build>>
       \/ \E e \in CallbackErrors(Top) : Raise(e)

----------------------------------------------------------------------------
(* parse_text_line *)

\* check_format: the first toggle still open, in the fixed order.
check_format(f) ==
    IF f.bold # None THEN Some(Err(Absolute(f.bold[1]), "UnclosedBold"))
    ELSE IF f.italic # None
    THEN Some(Err(Absolute(f.italic[1]), "UnclosedItalic"))
    ELSE IF f.underline # None
    THEN Some(Err(Absolute(f.underline[1]), "UnclosedUnderline"))
    ELSE IF f.strikethrough # None
    THEN Some(Err(Absolute(f.strikethrough[1]), "UnclosedStrikethrough"))
    ELSE None

\* maybe_set: the new value of the toggle and the tag emitted.
maybe_set_var(var, line) == IF var # None THEN None ELSE Some(line)
maybe_set_tag(var, c) == IF var # None THEN CloseTag(c) ELSE OpenTag(c)

\* from is history: the frame of the call that returned.
TextLineRet(done, line, pos, llwo) ==
    [from |-> Top, done |-> done, line |-> line, pos |-> pos,
     last_list_was_ordered |-> llwo]

\* From the call to the character loop: the list left open by the previous
\* call is closed, the line is looked up.
TextLineEntry ==
    /\ Active("parse_text_line", "entry")
    /\ \E b \in BuildsAt(Top.last_list_was_ordered # None /\ Top.line = 0) :
       /\ build' = b
       /\ IF Overflows(b, Top.last_list_was_ordered # None /\ Top.line = 0)
          THEN /\ result' = Panicked
               /\ UNCHANGED <<stack, output>>
          ELSE LET out1 == IF Top.last_list_was_ordered # None
                           THEN parse_close_list(lines, Top.line, Top.pos,
                                    output, Top.last_list_was_ordered[1])
                           ELSE output
                   vl == Get(lines, Top.line)
               IN  /\ output' = out1
                   /\ IF vl = None
                      THEN /\ result' = ParseOutcome(
                                  Err(Absolute(Top.start_line), "BlockNoEnd"),
                                  out1)
                           /\ UNCHANGED stack
                      ELSE /\ SetTop([Top EXCEPT !.pc = "scan",
                                                 !.vline = vl[1]])
                           /\ UNCHANGED result
    /\ UNCHANGED <<mkvars, ctx, lines, ret>>

Escaped(t) == t[1] = "\\"
\* DoubleEscaped looking at the last character only
DoubleEscapedLastOnly(t) == t[1] = "\\"
DoubleEscaped(t) == t[1] = "\\" /\ t[2] = "\\"
IsToggle(c) == c \in {"*", "/", "_", "~"}
ToggleField(c) ==
    CASE c = "*" -> "bold" [] c = "/" -> "italic"
      [] c = "_" -> "underline" [] c = "~" -> "strikethrough"
ToggleTag(c) ==
    CASE c = "*" -> "b" [] c = "/" -> "i" [] c = "_" -> "u" [] c = "~" -> "s"

\* Advance without the (continue) for a tab
AdvanceTabToo(f, c) ==
    [f EXCEPT !.pos = f.pos + 1,
              !.line_first_valid_ch = IF ~is_whitespace(c) THEN FALSE ELSE @,
              !.triple_last_c = <<c, @[1], @[2]>>,
              !.read = Append(@, c)]

\* The tail of the loop body: pos += 1, and unless c is a tab the first-
\* character flag and the lookback window are updated.
Advance(f, c) ==
    IF c = "\t" THEN [f EXCEPT !.pos = f.pos + 1, !.read = Append(@, c)]
    ELSE [f EXCEPT !.pos = f.pos + 1,
                   !.line_first_valid_ch =
                       IF ~is_whitespace(c) THEN FALSE ELSE @,
                   !.triple_last_c = <<c, @[1], @[2]>>,
                   !.read = Append(@, c)]

\* One iteration of (while let Some(&c) = vline.get(pos)).
TextLineChar ==
    /\ Active("parse_text_line", "scan")
    /\ Top.pos < Len(Top.vline)
    /\ LET f == Top
           c == f.vline[f.pos + 1]
           t == f.triple_last_c
       IN
       CASE c = "[" /\ ~Escaped(t) ->
              /\ Push([f EXCEPT !.pc = "wait"], BlockFrame(f.line, f.pos + 1))
              /\ UNCHANGED <<mkvars, ctx, lines, output, ret, result, build>>
         [] c = "]" /\ ~Escaped(t) ->
              IF check_format(f) # None
              THEN Raise(check_format(f)[1])
              ELSE /\ Return(TextLineRet(TRUE, f.line, f.pos + 1, None))
                   /\ UNCHANGED <<mkvars, ctx, lines, output, result, build>>
         [] c \in {"+", "="} /\ f.line_first_valid_ch ->
              IF ~f.allow_lists
              THEN Raise(Err(Absolute(f.line), "RecursiveList"))
              ELSE /\ SetTop(OpenListFrame(f.line, f.pos, c = "=",
                                           f.start_line))
                   /\ UNCHANGED <<mkvars, ctx, lines, output, ret, result, build>>
         [] IsToggle(c) /\ (~Escaped(t) \/ DoubleEscaped(t)) ->
              /\ output' = output \o maybe_set_tag(f[ToggleField(c)],
                                                   ToggleTag(c))
              /\ SetTop(Advance([f EXCEPT ![ToggleField(c)] =
                                     maybe_set_var(@, f.line)], c))
              /\ UNCHANGED <<mkvars, ctx, lines, ret, result, build>>
         [] c = "\\" ->
              /\ output' = IF Escaped(t) THEN Append(output, c) ELSE output
              /\ SetTop(Advance(f, c))
              /\ UNCHANGED <<mkvars, ctx, lines, ret, result, build>>
         [] c = " " ->
              /\ output' = IF ~is_whitespace(t[1]) THEN Append(output, c)
                           ELSE output
              /\ SetTop(Advance(f, c))
              /\ UNCHANGED <<mkvars, ctx, lines, ret, result, build>>
         [] OTHER ->
              IF ~IsToggle(c) /\ Escaped(t)
              THEN Raise(Err(Absolute(f.line), "StrayBackslash"))
              ELSE /\ output' = Append(output, c)
                   /\ SetTop(Advance(f, c))
                   /\ UNCHANGED <<mkvars, ctx, lines, ret, result, build>>

\* parse_block returned to the '[' arm: line, pos and output are taken and
\* the loop continues (the tail of the loop body is skipped).
TextLineBlockReturned ==
    /\ Active("parse_text_line", "wait")
    /\ ret # None
    /\ SetTop([Top EXCEPT !.pc = "scan", !.line = ret[1].line,
                          !.pos = ret[1].pos, !.seg = ret[1].pos])
    /\ ret' = None
    /\ UNCHANGED <<mkvars, ctx, lines, output, result, build>>

\* The loop ended: vline.get(pos) is None.
TextLineEnd ==
    /\ Active("parse_text_line", "scan")
    /\ Top.pos >= Len(Top.vline)
    /\ LET f == Top
           out1 == IF Len(f.vline) = 0 THEN output \o S_br
                   ELSE IF ~is_whitespace(f.triple_last_c[1])
                   THEN Append(output, " ")
                   ELSE output
       IN  /\ output' = out1
           /\ IF check_format(f) # None
              THEN /\ result' = ParseOutcome(check_format(f)[1], out1)
                   /\ UNCHANGED <<stack, ret>>
              ELSE /\ Return(TextLineRet(FALSE, f.line + 1, 0, None))
                   /\ UNCHANGED result
    /\ UNCHANGED <<mkvars, ctx, lines, build>>

----------------------------------------------------------------------------
(* parse_open_list *)

\* From the call to the call of parse_text_line for the item's content.
OpenListEntry ==
    /\ Active("parse_open_list", "entry")
    /\ \E b \in BuildsAt(Top.line = 0) :
       /\ build' = b
       /\ LET f == Top
              cur == parse_list_determine_depth(lines, f.line, f.pos,
                                                f.is_ordered)
              last == parse_list_determine_depth(lines, LineMinusOne(f.line),
                                                 0, f.is_ordered)
          IN  IF cur = None \/ Overflows(b, f.line = 0)
              THEN /\ result' = Panicked
                   /\ UNCHANGED <<stack, output>>
              ELSE LET depth == cur[1][1]
                       pos == cur[1][2]
                       m == ListManipulations(depth, last, f.is_ordered)
                   IN  IF ~m.ok
                       THEN /\ result' = Err(Absolute(f.line),
                                             "InvalidListDepth")
                            /\ UNCHANGED <<stack, output>>
                       ELSE /\ output' = output \o m.tags \o S_li
                            /\ Push([f EXCEPT !.pc = "wait"],
                                    TextLineFrame(f.line, pos - 1, FALSE,
                                                  f.start_line, None))
                            /\ UNCHANGED result
    /\ UNCHANGED <<mkvars, ctx, lines, ret>>

\* parse_text_line returned the item: it is closed and the result passed on
\* with Some(is_ordered).
OpenListReturned ==
    /\ Active("parse_open_list", "wait")
    /\ ret # None
    /\ output' = output \o S_li_close
    /\ Return(TextLineRet(ret[1].done, ret[1].line, ret[1].pos,
                          Some(Top.is_ordered)))
    /\ UNCHANGED <<mkvars, ctx, lines, result, build>>

----------------------------------------------------------------------------
(* The inputs *)

\* s.split('\n'): the source text as lines
RECURSIVE Split(_, _, _)
Split(s, i, cur) ==
    IF i > Len(s) THEN <<cur>>
    ELSE IF s[i] = "\n" THEN <<cur>> \o Split(s, i + 1, <<>>)
    ELSE Split(s, i + 1, Append(cur, s[i]))

split(s) == Split(s, 1, <<>>)

Scenarios ==
    { \* the scenario of section 8 and of the test
      <<"[","a","b","c"," ","H","e","l","l","o"," ","W","o","r","l","d","]">>,
      \* the nested block of the test
      <<"[","n","e","s","t","e","d","\n"," "," "," "," ","[","n","e","s","t","e","d"," ","O","k","?","]","\n","]">>,
      \* the list block of the test
      <<"[","l","i","s","t","s","\n","\n"," "," "," "," ","+"," ","F","i","r","s","t","E","l","e","m","e","n","t"," ","+"," ","1","0","\n","+"," "," "," ","S","e","c","o","n","d"," ","E","l","e","m","e","n","t","\n","+","+","N","e","s","t","e","d"," ","E","l","e","m","e","n","t","\n","T","h","i","s"," ","i","s"," ","j","u","s","t"," ","n","o","r","m","a","l"," ","t","e","x","t",".","\n","\n","]">>,
      \* text of the test's third block, in a generic block
      <<"[","p","\n","\n","H","i",".","\n","S","a","m","e"," ","l","i","n","e",".","\n","\n","H","o","p","e","f","u","l","l","y",","," ","*","a","l","l","*"," ","\\","~","~","t","e","s","t","s","\\","~","~"," ","/","w","i","l","l","/"," ","b","e"," ","_","g","r","e","e","n","_",","," ","o","k",".","\n","\n","]">>,
      \* the list scenario of section 8
      <<"[","l","i","s","t","s","\n","+"," ","F","i","r","s","t","\n","+"," ","S","e","c","o","n","d","\n","+","+","N","e","s","t","e","d","\n","]">>,
      \* the same list followed by text
      <<"[","l","i","s","t","s","\n","+"," ","F","i","r","s","t","\n","+"," ","S","e","c","o","n","d","\n","+","+","N","e","s","t","e","d","\n","T","e","x","t",".","\n","]">>,
      \* the same list after an empty line
      <<"[","l","i","s","t","s","\n","\n","+"," ","F","i","r","s","t","\n","+"," ","S","e","c","o","n","d","\n","+","+","N","e","s","t","e","d","\n","\n","]">>,
      \* nested blocks on one line
      <<"[","o","u","t","e","r"," ","[","i","n","n","e","r"," ","X","]","]">>,
      \* nested blocks on one line, text around
      <<"[","a"," ","x"," ","[","b"," ","y","]"," ","z","]">>,
      \* two blocks
      <<"[","a"," ","x","]","\n","[","b"," ","y","]">>,
      \* a nested block closed on the next line
      <<"[","a"," ","[","b","\n","x","]"," ","y","]">>,
      \* a nested block on lines of its own
      <<"[","a","\n","[","b","\n","x","\n","]","\n","y","\n","]">>,
      \* a nested block closed on the next line, outer closed later
      <<"[","a"," ","[","b","\n","x","]","\n","]">>,
      \* a toggle after a nested block closed on the next line
      <<"[","a"," ","[","b","\n","x","]"," ","*","]">>,
      \* text after the outer block
      <<"[","a"," ","[","b","\n","]","]"," ","q"," ","c","]","\n","]">>,
      \* a block after a block, the second closed on the next line
      <<"[","a"," ","[","c","]"," ","[","b","\n","x","x","x","]","]">>,
      \* an escape before a nested block closed on the next line
      <<"[","a"," ","\\","*","[","b","\n","x","x","x","]","\n","]">>,
      \* a list marker after the name
      <<"[","a"," ","+"," ","x","]">>,
      \* a list marker after a nested block
      <<"[","a","\n","[","b","]"," ","+"," ","x","\n","]">>,
      \* text after the block
      <<"[","a"," ","x","]"," ","q">>,
      \* text before the block
      <<"q"," ","[","a"," ","x","]">>,
      \* a block closed on its last list line
      <<"[","a","\n","+"," ","x","]">>,
      \* a block closed on a nested list line
      <<"[","a","\n","+"," ","x","\n","+","+"," ","y","]">>,
      \* a list line of markers alone
      <<"[","a","\n","+","+","\n","]">>,
      \* a list item that starts with a marker of the other type
      <<"[","a","\n","+"," ","="," ","x","\n","]">> }

\* The bounds of the enumerated inputs
MaxText == 3
MaxName == 2
MaxTop == 3
MaxListLines == 3

SeqsUpTo(A, n) == UNION {[1..k -> A] : k \in 0..n}

RECURSIVE Concat(_)
Concat(ss) == IF ss = <<>> THEN <<>> ELSE Head(ss) \o Concat(Tail(ss))

\* One block whose content is a short text: [a TEXT]
TextAlphabet == {"\\", "*", "/", "_", "~", "x", " ", "\t"}
TextDocs ==
    { <<"[", "a", " ">> \o t \o <<"]">> : t \in SeqsUpTo(TextAlphabet, MaxText) }

\* One block with a short name, ended in each way
NameAlphabet == {"a", "Z", "_", "1", "U+0141"}
NameTails == { <<>>, <<"]">>, <<" ", "x", "]">>, <<"\n", "x", "]">> }
NameDocs ==
    { <<"[">> \o n \o t : n \in SeqsUpTo(NameAlphabet, MaxName), t \in NameTails }

\* Text without any block start
TopAlphabet == {" ", "\t", "\r", "\n", "q", "]"}
TopDocs == SeqsUpTo(TopAlphabet, MaxTop)

\* One block whose content is a few lines, list lines and text lines
ListLines ==
    { <<"+", " ", "x">>, <<"+", "+", " ", "x">>, <<"+", "+", "+", " ", "x">>,
      <<"=", " ", "x">>, <<"x">>, <<"x", " ", "+", "y">> }
ListDocs ==
    { <<"[", "a", "\n">> \o Concat([i \in 1..Len(ls) |-> ls[i] \o <<"\n">>])
          \o <<"]">> : ls \in SeqsUpTo(ListLines, MaxListLines) }

\* Blocks that the input ends in: the documents of ListDocs without their
\* closing ], and nested blocks left open
UnclosedDocs ==
    { SubSeq(d, 1, Len(d) - k) : d \in ListDocs, k \in {1, 2} } \cup
    { <<"[","a","\n","[","b","\n","x">>,
      <<"[","a","\n","[","b"," ","x","]","\n","y">>,
      <<"[","a"," ","[","b"," ","x">>,
      <<"[","a","\n","[","b","\n","x","]","\n","y","\n">>,
      <<"[","a"," ","[","b","\n","x","]","\n","y">>,
      <<"[","a","\n","\n","[","b","\n","+"," ","x","\n","+","+"," ","y">> }

\* One block whose content is one line of short text: [a, TEXT, ]
EndAlphabet == {"x", " ", "\t", "\r", "*", "\\"}
LineEndDocs ==
    { <<"[", "a", "\n">> \o t \o <<"\n", "]">> :
          t \in SeqsUpTo(EndAlphabet, MaxText) }

Inputs ==
    Scenarios \cup TextDocs \cup NameDocs \cup TopDocs \cup ListDocs
        \cup UnclosedDocs \cup LineEndDocs

Init ==
    /\ NoProject
    /\ ctx = {}
    /\ lines \in {split(s) : s \in Inputs}
    /\ stack = <<ParseFrame(0, 0, "scan")>>
    /\ output = S_html_open
    /\ ret = None
    /\ result = Running
    /\ build = "open"

Next ==
    \/ DriverChar
    \/ DriverNextLine
    \/ DriverPastEnd
    \/ DriverBlockReturned
    \/ BlockEntry
    \/ BlockCallTextLine
    \/ BlockTextLineReturned
    \/ TextLineEntry
    \/ TextLineChar
    \/ TextLineBlockReturned
    \/ TextLineEnd
    \/ OpenListEntry
    \/ OpenListReturned

Spec == Init /\ [][Next]_vars

\* parse() with a callback registered for the name plugin, as in the test
PluginName == <<"p","l","u","g","i","n">>
PluginDocs ==
    { <<"[","p","l","u","g","i","n"," ","x","]">>,
      <<"[","p","l","u","g","i","n","]">>,
      <<"[","p","l","u","g","i","n","\n","x","]">>,
      <<"[","p","l","u","g","i","n">>,
      <<"[","p","l","u","g","i","n"," ","x">>,
      <<"[","a"," ","[","p","l","u","g","i","n"," ","x","]"," ","y","]">>,
      <<"[","p","l","u","g","i","n"," ","x","]"," ","[","a"," ","y","]">>,
      <<"[","a","\n","+"," ","x","\n","[","p","l","u","g","i","n","]","\n","]">>,
      <<"[","a"," ","x","]","\n","\n","[","p","l","u","g","i","n"," ","y","]">>,
      <<"[","p","l","u","g","i","n","s"," ","x","]">>,
      <<"[","a"," ","[","b"," ","x","]"," ","*","c","*","]">> }

InitPlugins ==
    /\ NoProject
    /\ ctx = {PluginName}
    /\ lines \in {split(s) : s \in PluginDocs}
    /\ stack = <<ParseFrame(0, 0, "scan")>>
    /\ output = S_html_open
    /\ ret = None
    /\ result = Running
    /\ build = "open"

NextPlugins ==
    \/ Next
    \/ BlockCallbackReturned
    \/ Callback

SpecPlugins == InitPlugins /\ [][NextPlugins]_vars

----------------------------------------------------------------------------
(* The source text read independently of the parser: what the document is *)

Done == result.tag # "Running"
IsErr(kind, line) ==
    /\ result.tag = "Err"
    /\ result.error = kind
    /\ result.location = Absolute(line)

\* The lines joined again by line feeds: the text parse() was given.
RECURSIVE Join(_)
Join(ls) ==
    IF Len(ls) = 0 THEN <<>>
    ELSE IF Len(ls) = 1 THEN ls[1]
    ELSE ls[1] \o <<"\n">> \o Join(Tail(ls))

Source == Join(lines)

\* The 0-based line of the character src[i].
SrcLine(src, i) == Cardinality({k \in 1..(i - 1) : src[k] = "\n"})

StartsAt(s, i, sub) ==
    i + Len(sub) - 1 <= Len(s) /\ SubSeq(s, i, i + Len(sub) - 1) = sub

Contains(s, sub) ==
    \E i \in 0..(Len(s) - Len(sub)) : SubSeq(s, i + 1, i + Len(sub)) = sub

\* The allowed characters of a block name: ASCII letters and underscore.
NameCh(c) ==
    LET n == CodePoint(c)
    IN  (n >= 65 /\ n <= 90) \/ (n >= 97 /\ n <= 122) \/ n = 95

Toggles == {"*", "/", "_", "~"}
\* Characters that are text everywhere in a block
PlainCh(c) ==
    c \notin {"[", "]", "\\", "*", "/", "_", "~", "+", "=", "\t", "\r", "<",
              ">", "'"}

\* The first index from i on whose character is not a name character.
RECURSIVE NameEnd(_, _)
NameEnd(src, i) ==
    IF i > Len(src) \/ ~NameCh(src[i]) THEN i ELSE NameEnd(src, i + 1)

UnclosedError(c) ==
    CASE c = "*" -> "UnclosedBold" [] c = "/" -> "UnclosedItalic"
      [] c = "_" -> "UnclosedUnderline" [] c = "~" -> "UnclosedStrikethrough"

NoToggle == [c \in Toggles |-> <<>>]

\* The lines of the toggles left unmatched in a block whose toggles occurred
\* on the lines occ[c], as the errors they call for.
OddToggles(occ) ==
    UNION {{<<UnclosedError(c), occ[c][k]>> : k \in 1..Len(occ[c])} :
              c \in {x \in Toggles : Len(occ[x]) % 2 = 1}}

\* A document read by its brackets alone.  status is
\*   "wellformed": blocks with valid names, closed in order, whose content
\*                 is plain text, toggles and blocks; only whitespace outside
\*   "stray":      the same up to a character outside every block that is
\*                 neither whitespace nor a block start, on line line
\*   "other":      anything else
\* tags lists the blocks' starts and ends in document order, odd the
\* unmatched toggles of the blocks closed so far, toggles whether any toggle
\* character occurred in a block's content.
RECURSIVE RefScan(_, _, _, _, _, _)
RefScan(src, i, st, tags, odd, tg) ==
    LET R(status) == [status |-> status, tags |-> tags, odd |-> odd,
                      toggles |-> tg,
                      line |-> IF i <= Len(src) THEN SrcLine(src, i) ELSE 0]
    IN
    IF i > Len(src) THEN (IF st = <<>> THEN R("wellformed") ELSE R("other"))
    ELSE LET c == src[i] IN
         IF c = "["
         THEN LET j == NameEnd(src, i + 1) IN
              IF j = i + 1 \/ j > Len(src) \/ src[j] \notin {" ", "\n", "]"}
              THEN R("other")
              ELSE RefScan(src, IF src[j] = "]" THEN j ELSE j + 1,
                           Append(st, NoToggle),
                           Append(tags, <<"open", SubSeq(src, i + 1, j - 1)>>),
                           odd, tg)
         ELSE IF c = "]"
         THEN IF st = <<>> THEN R("stray")
              ELSE RefScan(src, i + 1, SubSeq(st, 1, Len(st) - 1),
                           Append(tags, <<"close", <<>>>>),
                           odd \cup OddToggles(st[Len(st)]), tg)
         ELSE IF st = <<>>
         THEN IF is_whitespace(c) THEN RefScan(src, i + 1, st, tags, odd, tg)
              ELSE R("stray")
         ELSE IF c \in Toggles
         THEN RefScan(src, i + 1,
                      [st EXCEPT ![Len(st)][c] = Append(@, SrcLine(src, i))],
                      tags, odd, TRUE)
         ELSE IF PlainCh(c) THEN RefScan(src, i + 1, st, tags, odd, tg)
         ELSE R("other")

Ref == RefScan(Source, 1, <<>>, <<>>, {}, FALSE)

\* The div tags of an output in order, as RefScan lists the blocks.
RECURSIVE OutTags(_, _, _)
OutTags(out, i, tags) ==
    IF i > Len(out) THEN tags
    ELSE IF StartsAt(out, i, S_div_open)
    THEN LET a == i + Len(S_div_open)
             q == CHOOSE k \in a..(Len(out) + 1) :
                     /\ k = Len(out) + 1 \/ out[k] = "'"
                     /\ \A m \in a..(k - 1) : out[m] # "'"
         IN  OutTags(out, q + 1, Append(tags, <<"open", SubSeq(out, a, q - 1)>>))
    ELSE IF StartsAt(out, i, S_div_close)
    THEN OutTags(out, i + Len(S_div_close), Append(tags, <<"close", <<>>>>))
    ELSE OutTags(out, i + 1, tags)

----------------------------------------------------------------------------
(* C1 *)

HelloDoc == split(<<"[","a","b","c"," ","H","e","l","l","o"," ","W","o","r","l","d","]">>)
HelloMarkup == <<"<","d","i","v"," ","c","l","a","s","s","=","'","a","b","c","'",">","H","e","l","l","o"," ","W","o","r","l","d","<","/","d","i","v",">">>

\* parse_block has just returned Ok
BlockReturned == ret # None /\ ret[1].from.fn = "parse_block"

\* C1: a generic block appends <div class='NAME'>, the output of its
\* Text-Line Parser calls and </div>, and returns the cursor just past its
\* closing ]; [abc Hello World] gives <div class='abc'>Hello World</div>.
C1_GenericBlock ==
    /\ BlockReturned =>
          LET b == ret[1].from
              added == SubSeq(output, b.out0 + 1, Len(output))
              opening == S_div_open \o b.name \o S_div_open_end
          IN  /\ StartsAt(added, 1, opening)
              /\ Len(added) >= Len(opening) + Len(S_div_close)
              /\ StartsAt(added, Len(added) - Len(S_div_close) + 1, S_div_close)
              /\ ret[1].line < Len(lines)
              /\ Get(lines[ret[1].line + 1], ret[1].pos - 1) = Some("]")
    /\ (lines = HelloDoc /\ Done) =>
          result.tag = "Ok" /\ Contains(result.output, HelloMarkup)

----------------------------------------------------------------------------
(* C2 *)

\* The character loop of parse_text_line is about to read a character
Scanning == Active("parse_text_line", "scan")

\* C2: on a well-formed document of nested generic blocks parse succeeds;
\* the Text-Line Parser always reads the source character at its cursor
\* (line, pos), also after a nested block returned; the output holds the
\* containers nested as the blocks are, in document order.
C2_NestedBlocks ==
    (Ref.status = "wellformed" /\ ~Ref.toggles) =>
        /\ result.tag \in {"Running", "Ok"}
        /\ Scanning => Get(Top.vline, Top.pos) = Get(lines[Top.line + 1], Top.pos)
        /\ result.tag = "Ok" => OutTags(result.output, 1, <<>>) = Ref.tags

----------------------------------------------------------------------------
(* C3 *)

\* C3: a character that is neither [ nor whitespace outside every block makes
\* parse return ExpectedBlockStart at that character's line (the blocks
\* before it being well-formed); so does every input without [ that is not
\* all whitespace; an input of whitespace alone gives the HTML envelope.
C3_ExpectedBlockStart ==
    Done =>
        /\ Ref.status = "stray" => IsErr("ExpectedBlockStart", Ref.line)
        /\ (Ref.status = "wellformed" /\ Ref.tags = <<>>) =>
              result = Ok(S_html_open \o S_html_close)

----------------------------------------------------------------------------
(* C4 *)

\* C4: a block whose own content holds an odd number of a toggle character
\* makes parse fail with that toggle's Unclosed error at a line of the block
\* where the toggle stands (of the toggles left open, any one may be
\* reported); when parse succeeds every block's toggles are even in number.
C4_Toggles ==
    (Done /\ Ref.status = "wellformed") =>
        /\ result.tag = "Ok" => Ref.odd = {}
        /\ Ref.odd # {} =>
              /\ result.tag = "Err"
              /\ result.location[1] = "Absolute"
              /\ <<result.error, result.location[2]>> \in Ref.odd

----------------------------------------------------------------------------
(* C5 *)

\* The number of whitespace characters a line starts with.
RECURSIVE LeadWs(_)
LeadWs(l) ==
    IF l # <<>> /\ is_whitespace(Head(l)) THEN 1 + LeadWs(Tail(l)) ELSE 0

\* The length of the run of c that l starts with.
RECURSIVE RunLen(_, _)
RunLen(l, c) == IF l # <<>> /\ Head(l) = c THEN 1 + RunLen(Tail(l), c) ELSE 0

Drop(l, n) == SubSeq(l, n + 1, Len(l))

\* A list line: the first character that is not whitespace is + or =.
Unindented(l) == Drop(l, LeadWs(l))
IsListLine(l) == Unindented(l) # <<>> /\ Head(Unindented(l)) \in {"+", "="}
ListMarker(l) == Head(Unindented(l))
ListDepth(l) == RunLen(Unindented(l), ListMarker(l))
ItemText(l) == Drop(Unindented(l), ListDepth(l))

\* Text that is plain but for + and = after its first word character.
PlainText(t) ==
    /\ \A k \in 1..Len(t) : PlainCh(t[k]) \/ t[k] \in {"+", "="}
    /\ Unindented(t) # <<>> => PlainCh(Head(Unindented(t)))

\* A generic block holding lines of plain text and list lines with text
\* items, opened on the first line and closed on the last.
IsListDoc ==
    /\ Len(lines) >= 2
    /\ Len(lines[1]) >= 2
    /\ lines[1][1] = "["
    /\ \A k \in 2..Len(lines[1]) : NameCh(lines[1][k])
    /\ lines[Len(lines)] = <<"]">>
    /\ \A i \in 2..(Len(lines) - 1) :
          IF IsListLine(lines[i])
          THEN ItemText(lines[i]) # <<>> /\ Unindented(ItemText(lines[i])) # <<>>
               /\ PlainText(ItemText(lines[i]))
          ELSE PlainText(lines[i])

\* The list lines (1-based i) that follow a list line of the same marker and
\* are more than one level deeper.
TooDeep ==
    {i \in 3..(Len(lines) - 1) :
        /\ IsListLine(lines[i]) /\ IsListLine(lines[i - 1])
        /\ ListMarker(lines[i]) = ListMarker(lines[i - 1])
        /\ ListDepth(lines[i]) > ListDepth(lines[i - 1]) + 1}

Min(S) == CHOOSE x \in S : \A y \in S : x <= y

\* C5: the lists of a block parse iff no list line is more than one level
\* deeper than the list line before it (the first line of a list may have
\* any depth); otherwise parse returns InvalidListDepth at the first such
\* line.
C5_ListDepth ==
    (Done /\ IsListDoc) =>
        IF TooDeep = {} THEN result.tag = "Ok"
        ELSE IsErr("InvalidListDepth", Min(TooDeep) - 1)

----------------------------------------------------------------------------
(* C6 *)

\* The list block with the content lines + First, + Second, ++Nested, the
\* closing ] on a later line: alone, followed by text, between empty lines.
FirstSecondNestedDocs ==
    { split(<<"[","l","i","s","t","s","\n","+"," ","F","i","r","s","t","\n","+"," ","S","e","c","o","n","d","\n","+","+","N","e","s","t","e","d","\n","]">>),
      split(<<"[","l","i","s","t","s","\n","+"," ","F","i","r","s","t","\n","+"," ","S","e","c","o","n","d","\n","+","+","N","e","s","t","e","d","\n","T","e","x","t",".","\n","]">>),
      split(<<"[","l","i","s","t","s","\n","\n","+"," ","F","i","r","s","t","\n","+"," ","S","e","c","o","n","d","\n","+","+","N","e","s","t","e","d","\n","\n","]">>) }

\* <ul><li>First</li><li>Second</li><ul><li>Nested</li></ul></ul>
MarkupWithoutSpaces ==
    <<"<","u","l",">","<","l","i",">","F","i","r","s","t","<","/","l","i",">","<","l","i",">","S","e","c","o","n","d","<","/","l","i",">","<","u","l",">","<","l","i",">","N","e","s","t","e","d","<","/","l","i",">","<","/","u","l",">","<","/","u","l",">">>
\* <ul><li>First </li><li>Second </li><ul><li>Nested </li></ul></ul>
MarkupWithSpaces ==
    <<"<","u","l",">","<","l","i",">","F","i","r","s","t"," ","<","/","l","i",">","<","l","i",">","S","e","c","o","n","d"," ","<","/","l","i",">","<","u","l",">","<","l","i",">","N","e","s","t","e","d"," ","<","/","l","i",">","<","/","u","l",">","<","/","u","l",">">>

Count(s0, sub) == Cardinality({i \in 1..Len(s0) : StartsAt(s0, i, sub)})

\* C6 as stated: the three list lines give the markup with items First,
\* Second and Nested, nothing between an item's text and its </li>.
C6_AsStated ==
    (lines \in FirstSecondNestedDocs /\ Done) =>
        result.tag = "Ok" /\ Contains(result.output, MarkupWithoutSpaces)

\* C6 amended: the three list lines give the markup in which every item's
\* text is followed by the space that joins lines; one level is opened for
\* First, none for Second, one more for Nested, and both are closed at the
\* end of the list: two <ul> and two </ul> in all.
C6_ListMarkup ==
    (lines \in FirstSecondNestedDocs /\ Done) =>
        /\ result.tag = "Ok"
        /\ Contains(result.output, MarkupWithSpaces)
        /\ Count(result.output, S_ul) = 2
        /\ Count(result.output, S_ul_close) = 2

C6_Witness == lines \in FirstSecondNestedDocs /\ result.tag = "Ok"

----------------------------------------------------------------------------
(* C7 *)

\* The character f is about to read (0-based pos) and the ones before it
\* that the character loop read since it last started or resumed.
NextCh(f) == f.vline[f.pos + 1]
ReadBefore(f, k) == f.pos - k >= f.seg
ChBefore(f, k) == f.vline[f.pos - k + 1]

\* The k characters just read are all backslashes
RECURSIVE BackslashRun(_, _)
BackslashRun(f, k) ==
    IF ReadBefore(f, k + 1) /\ ChBefore(f, k + 1) = "\\"
    THEN BackslashRun(f, k + 1) ELSE k

\* The next character is a toggle character and follows one backslash that
\* is itself not preceded by a backslash.
EscapedToggleNext ==
    /\ Scanning
    /\ Top.pos < Len(Top.vline)
    /\ NextCh(Top) \in Toggles
    /\ BackslashRun(Top, 0) = 1

SameFormat(f, g) ==
    /\ f.bold = g.bold /\ f.italic = g.italic
    /\ f.underline = g.underline /\ f.strikethrough = g.strikethrough

\* C7: reading a toggle character after a single backslash emits the
\* character itself and nothing else, and leaves bold, italic, underline and
\* strikethrough as they were.
C7_EscapedToggle ==
    [][EscapedToggleNext =>
          /\ result' = Running
          /\ output' = Append(output, NextCh(Top))
          /\ Len(stack') = Len(stack)
          /\ SameFormat(stack'[Len(stack')], Top)]_vars

\* An escaped toggle has just been read and emitted.
C7_Witness ==
    /\ Scanning
    /\ ReadBefore(Top, 2)
    /\ ChBefore(Top, 1) \in Toggles
    /\ ChBefore(Top, 2) = "\\"
    /\ ~(ReadBefore(Top, 3) /\ ChBefore(Top, 3) = "\\")
    /\ output[Len(output)] = ChBefore(Top, 1)

----------------------------------------------------------------------------
(* C8 *)

\* The next character follows a pair of backslashes.
AfterBackslashPair ==
    /\ Scanning
    /\ Top.pos < Len(Top.vline)
    /\ BackslashRun(Top, 0) = 2

\* C8: the second backslash of a pair emits one backslash, and the character
\* after the pair is read as if no backslash stood before it: a plain
\* character is emitted, a toggle character toggles, ] ends the block (or is
\* refused for an open toggle), [ starts a block, a backslash starts an
\* escape and emits nothing.
C8_BackslashPair ==
    [][/\ (Scanning /\ Top.pos < Len(Top.vline) /\ NextCh(Top) = "\\"
              /\ BackslashRun(Top, 0) = 1)
          => (result' = Running /\ output' = Append(output, "\\"))
       /\ AfterBackslashPair =>
          LET c == NextCh(Top) IN
          CASE PlainCh(c) /\ c # " " ->
                 result' = Running /\ output' = Append(output, c)
            [] c \in Toggles ->
                 /\ result' = Running
                 /\ output' = output \o maybe_set_tag(Top[ToggleField(c)],
                                                      ToggleTag(c))
            [] c = "]" ->
                 \/ (result' = Running /\ stack' = Rest)
                 \/ (result'.tag = "Err" /\ result'.error # "StrayBackslash")
            [] c = "[" -> result' = Running /\ Len(stack') = Len(stack) + 1
            [] c = "\\" -> result' = Running /\ output' = output
            [] OTHER -> TRUE]_vars

----------------------------------------------------------------------------
(* C9 *)

\* parse_block is about to read the name of a block on an existing line
ReadingName == Active("parse_block", "entry") /\ Top.line < Len(lines)

\* The characters from the cursor up to the first whitespace, ] or end of
\* line: the name as the source has it.
RECURSIVE NameRegion(_, _)
NameRegion(vline, pos) ==
    IF pos >= Len(vline) \/ is_whitespace(vline[pos + 1]) \/ vline[pos + 1] = "]"
    THEN <<>>
    ELSE <<vline[pos + 1]>> \o NameRegion(vline, pos + 1)

SrcName == NameRegion(lines[Top.line + 1], Top.pos)
AllNameCh(n) == \A k \in 1..Len(n) : NameCh(n[k])

\* C9: a name holding any character other than an ASCII letter or underscore
\* is refused with BadBlockName at the block's opening line, wherever the
\* character stands and whatever scalar value it is; an accepted name holds
\* only ASCII letters and underscores.
C9_BadBlockName ==
    [][ReadingName =>
          /\ ~AllNameCh(SrcName) =>
                result' = Err(Absolute(Top.line), "BadBlockName")
          /\ result' = Running => AllNameCh(stack'[Len(stack')].name)]_vars

----------------------------------------------------------------------------
(* C10 *)

\* The name runs to the end of the line
NameToLineEnd == Top.pos + Len(SrcName) = Len(lines[Top.line + 1])

\* C10 as stated: a line that ends in the name (valid characters, then
\* neither whitespace nor ]) makes parse_block return BlockNameNoEnd at that
\* line.
C10_AsStated ==
    [][(ReadingName /\ NameToLineEnd /\ AllNameCh(SrcName)) =>
          result' = Err(Absolute(Top.line), "BlockNameNoEnd")]_vars

\* C10 amended: parse_block returns BlockNameNoEnd, at that line, exactly
\* when the line ends right after the [, before any character of a name; a
\* line that ends after one or more characters of the name ends the name
\* there: the name is those characters and the block's text starts at the
\* end of the line.
C10_BlockNameNoEnd ==
    [][ReadingName =>
          /\ (result' = Err(Absolute(Top.line), "BlockNameNoEnd"))
                <=> Top.pos >= Len(lines[Top.line + 1])
          /\ (NameToLineEnd /\ SrcName # <<>> /\ AllNameCh(SrcName)) =>
                /\ result' = Running
                /\ stack'[Len(stack')].name = SrcName
                /\ stack'[Len(stack')].pos = Len(lines[Top.line + 1])]_vars

\* A name that the end of its line ended has been accepted.
C10_Witness ==
    /\ Active("parse_block", "loop")
    /\ Top.called_at[1] = Top.line
    /\ Top.name # <<>>
    /\ Top.pos = Len(lines[Top.line + 1])
    /\ Top.called_at[2] + Len(Top.name) = Top.pos
    /\ ~is_whitespace(lines[Top.line + 1][Top.pos])

----------------------------------------------------------------------------
(* C11 *)

\* The lines of the [ that are still open at the end of src, outermost
\* first, by the brackets alone.
RECURSIVE OpenLines(_, _, _)
OpenLines(src, i, st) ==
    IF i > Len(src) THEN st
    ELSE IF src[i] = "[" THEN OpenLines(src, i + 1, Append(st, SrcLine(src, i)))
    ELSE IF src[i] = "]" /\ st # <<>>
    THEN OpenLines(src, i + 1, SubSeq(st, 1, Len(st) - 1))
    ELSE OpenLines(src, i + 1, st)

StillOpen == OpenLines(Source, 1, <<>>)

\* The document lacks nothing but the closing ] of the blocks still open.
OnlyUnclosed ==
    /\ StillOpen # <<>>
    /\ RefScan(Source \o Repeat(<<"]">>, Len(StillOpen)), 1, <<>>, <<>>, {},
               FALSE).status = "wellformed"
    /\ ~Ref.toggles

\* parse_text_line is called for a line past the last one
PastLastLine == Active("parse_text_line", "entry") /\ Top.line >= Len(lines)

\* C11: when the input ends inside a generic block, parse returns BlockNoEnd
\* at the line of the [ of the innermost block still open: whenever the
\* Text-Line Parser is asked for a line past the last one (also after list
\* items), and as the result of every document that lacks nothing but its
\* closing brackets.
C11_BlockNoEnd ==
    /\ [][(PastLastLine /\ StillOpen # <<>>) =>
             result' = Err(Absolute(StillOpen[Len(StillOpen)]), "BlockNoEnd")]_vars
    /\ [](Done /\ OnlyUnclosed =>
             IsErr("BlockNoEnd", StillOpen[Len(StillOpen)]))

----------------------------------------------------------------------------
(* C12 *)

\* parse_block is about to read a name that has a callback
ReadingPluginName == ReadingName /\ SrcName \in ctx

\* The character that ends the name, if the line has one
NameTerminator == Get(lines[Top.line + 1], Top.pos + Len(SrcName))

Callbacks(st) == Cardinality({i \in 1..Len(st) : st[i].fn = "callback"})
TextLines(st) == Cardinality({i \in 1..Len(st) : st[i].fn = "parse_text_line"})

\* The dispatch step calls the callback once, with the cursor at offset p of
\* the line, and leaves the output as it is; no Text-Line Parser is called.
CallsCallbackAt(p) ==
    /\ result' = Running
    /\ Len(stack') = Len(stack) + 1
    /\ Callbacks(stack') = Callbacks(stack) + 1
    /\ TextLines(stack') = TextLines(stack)
    /\ stack'[Len(stack')].fn = "callback"
    /\ stack'[Len(stack')].line = Top.line
    /\ stack'[Len(stack')].pos = p
    /\ output' = output

\* parse_block hands on what the callback returned and adds nothing to it
HandsOnResult ==
    (Active("parse_block", "plugin") /\ ret # None) =>
        /\ stack' = Rest
        /\ ret' # None
        /\ ret'[1].line = ret[1].line
        /\ ret'[1].pos = ret[1].pos
        /\ output' = output
        /\ result' = Running

\* A block with a callback has the callback's call above it, or its result
OnlyCallback ==
    \A i \in 1..Len(stack) :
        (stack[i].fn = "parse_block" /\ stack[i].pc = "plugin") =>
            IF i < Len(stack) THEN i + 1 = Len(stack) /\ Top.fn = "callback"
            ELSE ret # None \/ result # Running

\* C12 as stated: the callback of a block whose name is registered is called
\* once, with the cursor just past the character that ended the name (a
\* whitespace or a ]), the output unchanged; its result is the result of
\* parse_block; no div is emitted and no Text-Line Parser called.
C12_AsStated ==
    /\ [][/\ (ReadingPluginName /\ NameTerminator # None) =>
                CallsCallbackAt(Top.pos + Len(SrcName) + 1)
          /\ HandsOnResult]_vars
    /\ []OnlyCallback

\* C12 amended: the cursor given to the callback is just past the whitespace
\* that ended the name, but at the ] when a ] ended the name, and at the end
\* of the line when the line ended it.
C12_PluginDispatch ==
    /\ [][/\ ReadingPluginName =>
                CallsCallbackAt(
                    IF NameTerminator # None /\ is_whitespace(NameTerminator[1])
                    THEN Top.pos + Len(SrcName) + 1
                    ELSE Top.pos + Len(SrcName))
          /\ HandsOnResult]_vars
    /\ []OnlyCallback

\* The callback of a block written [plugin] has been called, with the cursor
\* at the ].
C12_Witness ==
    /\ Active("callback", "entry")
    /\ Get(lines[Top.line + 1], Top.pos) = Some("]")
    /\ stack[Len(stack) - 1].name \in ctx

----------------------------------------------------------------------------
(* C13 *)

\* parse_block is called for a line past the last one: it returns the
\* end-of-input sentinel UnexpectedEnd, located Null
SentinelRaised == Active("parse_block", "entry") /\ Top.line >= Len(lines)

\* C13: without plugins, an error returned by parse is located at a line of
\* the source (Absolute, 0 <= line < number of lines) and is never the
\* sentinel UnexpectedEnd; the sentinel is raised only in a parse_block that
\* the driver called, past the last line.
C13_ErrorLocations ==
    /\ result.tag = "Err" =>
          /\ result.error # "UnexpectedEnd"
          /\ result.location # Null
          /\ result.location[1] = "Absolute"
          /\ result.location[2] \in 0..(Len(lines) - 1)
    /\ SentinelRaised =>
          /\ Len(stack) = 2
          /\ stack[1].fn = "parse"
          /\ stack[1].pc = "wait"

\* The input ended inside a block: an error raised past the last line has
\* been returned.
C13_Witness ==
    /\ result.tag = "Err"
    /\ result.error = "BlockNoEnd"
    /\ Len(stack) > 2
    /\ Top.fn = "parse_text_line"
    /\ Top.line >= Len(lines)

----------------------------------------------------------------------------
(* C14 *)

\* The character about to be read is a + or = that is not the first
\* character of its line other than whitespace (and follows no backslash).
MarkerInMidLine ==
    /\ Scanning
    /\ Top.pos < Len(Top.vline)
    /\ NextCh(Top) \in {"+", "="}
    /\ \E k \in 1..Top.pos : ~is_whitespace(Top.vline[k])
    /\ Top.vline[Top.pos] # "\\"

\* C14: a + or = that is not the first non-whitespace character of its
\* source line (after the block name on the opening line, after a nested
\* block, in mid-text) is no list marker: it is emitted as text, the List
\* Parser is not called and RecursiveList is not returned.
C14_ListMarkerPlace ==
    [][MarkerInMidLine =>
          /\ result' = Running
          /\ output' = Append(output, NextCh(Top))
          /\ Len(stack') = Len(stack)
          /\ stack'[Len(stack')].fn = "parse_text_line"]_vars

----------------------------------------------------------------------------
(* C15 *)

\* The container or list tag that starts at offset i of an output, as
\* <<"open" or "close", element>>, or None.
TagAt(out, i) ==
    IF StartsAt(out, i, S_div_open) THEN Some(<<"open", "div">>)
    ELSE IF StartsAt(out, i, S_ul) THEN Some(<<"open", "ul">>)
    ELSE IF StartsAt(out, i, S_ol) THEN Some(<<"open", "ol">>)
    ELSE IF StartsAt(out, i, S_div_close) THEN Some(<<"close", "div">>)
    ELSE IF StartsAt(out, i, S_ul_close) THEN Some(<<"close", "ul">>)
    ELSE IF StartsAt(out, i, S_ol_close) THEN Some(<<"close", "ol">>)
    ELSE None

\* The tags at the offsets P of out, in order, with the elements st open:
\* TRUE iff every closing tag closes the innermost open element and none is
\* left open.
RECURSIVE Balanced(_, _, _)
Balanced(out, P, st) ==
    IF P = {} THEN st = <<>>
    ELSE LET i == Min(P)
             t == TagAt(out, i)[1]
         IN  IF t[1] = "open" THEN Balanced(out, P \ {i}, Append(st, t[2]))
             ELSE /\ st # <<>>
                  /\ st[Len(st)] = t[2]
                  /\ Balanced(out, P \ {i}, SubSeq(st, 1, Len(st) - 1))

TagOffsets(out) == {i \in 1..Len(out) : TagAt(out, i) # None}

\* C15: when parse succeeds, the list tags of the output are balanced inside
\* each block: every <ul> or <ol> is closed by a tag of its kind before the
\* </div> of its block, and no list is closed that was not opened.
C15_ListTagsBalanced ==
    result.tag = "Ok" =>
        Balanced(result.output, TagOffsets(result.output), <<>>)

----------------------------------------------------------------------------
(* C16 *)

\* The offset just past the run of the marker character that starts at
\* offset pos of line l
RunEnd(l, pos) == pos + RunLen(Drop(l, pos), l[pos + 1])

\* parse_open_list is about to read a list line
ReadingListLine == Active("parse_open_list", "entry")

\* The Text-Line Parser is reading the content of a list item
InItem ==
    /\ Scanning
    /\ ~Top.allow_lists
    /\ Len(stack) > 1
    /\ stack[Len(stack) - 1].fn = "parse_open_list"

\* C16: the List Parser consumes the whole run of marker characters of a
\* list line, emits <li> and has the Text-Line Parser read the characters
\* after the run, list recognition disabled; no character of the run is read
\* as item content, so RecursiveList is returned only for a + or = after the
\* run (and a line of markers alone gives an empty item).
C16_ListItem ==
    [][/\ (ReadingListLine /\ result' = Running) =>
             LET item == stack'[Len(stack')] IN
             /\ item.fn = "parse_text_line"
             /\ ~item.allow_lists
             /\ item.last_list_was_ordered = None
             /\ item.pos = RunEnd(lines[Top.line + 1], Top.pos)
             /\ StartsAt(output', Len(output') - Len(S_li) + 1, S_li)
       /\ (InItem /\ result' = Err(Absolute(Top.line), "RecursiveList")) =>
             Top.pos >= RunEnd(lines[Top.line + 1], stack[Len(stack) - 1].pos)
      ]_vars

----------------------------------------------------------------------------
(* C17 *)

\* The next character follows a single backslash and cannot be escaped.
StrayNext ==
    /\ Scanning
    /\ Top.pos < Len(Top.vline)
    /\ BackslashRun(Top, 0) = 1
    /\ NextCh(Top) \notin Toggles \cup {"\\"}

\* C17: the Text-Line Parser returns StrayBackslash, at its current line,
\* exactly when it reads a character other than * / _ ~ and \ right after a
\* backslash that no backslash precedes.
C17_StrayBackslash ==
    [][/\ StrayNext => result' = Err(Absolute(Top.line), "StrayBackslash")
       /\ (result'.tag = "Err" /\ result'.error = "StrayBackslash") => StrayNext
      ]_vars

----------------------------------------------------------------------------
(* C18 *)

\* The character loop has ended at the end of its line
AtLineEnd == Scanning /\ Top.pos >= Len(Top.vline)

\* What a step has appended to the output
Emitted == SubSeq(output', Len(output) + 1, Len(output'))

\* The call returns: no terminator found, cursor at the start of the line
\* after the current one
ReturnsNextLine ==
    /\ result' = Running
    /\ stack' = Rest
    /\ ret' # None
    /\ ~ret'[1].done
    /\ ret'[1].line = Top.line + 1
    /\ ret'[1].pos = 0

\* C18 as stated: at the end of a line the Text-Line Parser emits <br><br>
\* if the line is empty, a single space if the last character of the line is
\* not whitespace, nothing if it is; and always returns offset 0 of the next
\* line with no terminator found.
C18_AsStated ==
    [][AtLineEnd =>
          /\ Emitted =
                IF Top.vline = <<>> THEN S_br
                ELSE IF ~is_whitespace(Top.vline[Len(Top.vline)]) THEN <<" ">>
                ELSE <<>>
          /\ ReturnsNextLine]_vars

\* The characters other than tabs that the loop of the call has read
ReadNoTabs(f) == SelectSeq(f.read, LAMBDA c : c # "\t")

ToggleOpen(f) ==
    f.bold # None \/ f.italic # None \/ f.underline # None
        \/ f.strikethrough # None

\* C18 amended: at the end of its line the Text-Line Parser emits <br><br>
\* if the line is empty; otherwise a single space if the last character that
\* this call read itself, tabs not counted, is not whitespace, and nothing if
\* it is whitespace or the call read no character (the call started at the
\* end of the line, or read a nested block and nothing after it).  Then, if
\* a toggle opened on the line is still open, it returns the Unclosed error
\* of C4; otherwise offset 0 of the next line with no terminator found.
C18_LineEnd ==
    [][AtLineEnd =>
          /\ Emitted =
                IF Top.vline = <<>> THEN S_br
                ELSE IF ReadNoTabs(Top) # <<>>
                        /\ ~is_whitespace(ReadNoTabs(Top)[Len(ReadNoTabs(Top))])
                THEN <<" ">>
                ELSE <<>>
          /\ IF ToggleOpen(Top)
             THEN /\ result'.tag = "Err"
                  /\ result'.error \in {UnclosedError(c) : c \in Toggles}
             ELSE ReturnsNextLine]_vars

\* A call has returned from the end of a line that ends in a character other
\* than whitespace, having read none and emitted nothing.
C18_Witness ==
    /\ ret # None
    /\ ret[1].from.fn = "parse_text_line"
    /\ ~ret[1].done
    /\ ret[1].from.read = <<>>
    /\ ret[1].from.vline # <<>>
    /\ ~is_whitespace(ret[1].from.vline[Len(ret[1].from.vline)])

----------------------------------------------------------------------------
(* C19 *)

\* parse_open_list is about to compute line - 1
OpenListSubtracts == Active("parse_open_list", "entry")
\* parse_text_line is about to call parse_close_list, which computes line - 1
CloseListSubtracts ==
    Active("parse_text_line", "entry") /\ Top.last_list_was_ordered # None

\* C19: parse_open_list and parse_close_list are never reached with
\* line = 0, so that line - 1 does not underflow.
C19_NoUnderflow ==
    /\ OpenListSubtracts => Top.line > 0
    /\ CloseListSubtracts => Top.line > 0
    /\ result # Panicked

----------------------------------------------------------------------------
(* C20 *)

\* parse() is a sequential program: it takes its next step as long as it
\* has one.
FairSpec == Spec /\ WF_vars(Next)

\* The (line, offset) cursor: the one just returned by a call, or else the
\* one of the innermost call.
Cursor ==
    IF ret # None THEN <<ret[1].line, ret[1].pos>> ELSE <<Top.line, Top.pos>>

LexLeq(a, b) == a[1] < b[1] \/ (a[1] = b[1] /\ a[2] <= b[2])

\* The step is an iteration of a loop that goes on: the same call is at the
\* same place before and after it.
LoopGoesOn ==
    /\ result' = Running
    /\ Len(stack') = Len(stack)
    /\ stack'[Len(stack')].fn = Top.fn
    /\ stack'[Len(stack')].pc = Top.pc

\* C20: parse terminates with Ok or Err; the cursor never moves backwards,
\* and an iteration that does not end its loop moves it forward.
C20_Terminates ==
    /\ <>(result.tag \in {"Ok", "Err"})
    /\ [][/\ (result = Running /\ result' = Running) => LexLeq(Cursor, Cursor')
          /\ LoopGoesOn => Cursor' # Cursor]_vars

----------------------------------------------------------------------------
(* The build tool: osmlmk build, osmlmk clean (osmlmk/src/make.rs)          *)
(*                                                                         *)
(* A modification time stands for the version of the source it was read    *)
(* from: writing a source moves its time forward.  dist[s] is the time of  *)
(* the version whose HTML the compiler last wrote, or NoEntry.             *)

\* The orders in which read_dir may list the sources
SourceOrders ==
    { q \in [1..Cardinality(SourceNames) -> SourceNames] :
        \A i, j \in DOMAIN q : q[i] = q[j] => i = j }

\* should_compile_source(ctx, src) with ctx.cache.sources = cache
should_compile_source(cache, src) ==
    IF src \in excluded THEN None
    ELSE LET modify == modified[src] IN
         IF cache[src] # NoEntry /\ cache[src] = modify
         THEN None
         ELSE Some(<<src, modify>>)

\* cmd_build up to the first source: load_build reads osml.cache and
\* list_sources walks src/
CmdBuild ==
    /\ mk = MkIdle
    /\ \E dryrun \in BOOLEAN, sources \in SourceOrders :
          mk' = [pc |-> "sources", dryrun |-> dryrun, cache |-> osml_cache,
                 sources |-> sources, should_compile_res |-> None]
    /\ UNCHANGED <<pvars, excluded, modified, dist, osml_cache>>

\* compile_source, its first statement; a source that needs no compile
\* returns None and the loop goes to the next one
CompileSource ==
    /\ mk.pc = "sources"
    /\ mk.sources # <<>>
    /\ LET res == should_compile_source(mk.cache, Head(mk.sources)) IN
       IF res = None
       THEN mk' = [mk EXCEPT !.sources = Tail(mk.sources)]
       ELSE mk' = [mk EXCEPT !.pc = "osmlc", !.should_compile_res = res]
    /\ UNCHANGED <<pvars, excluded, modified, dist, osml_cache>>

\* ./osmlc src -o dst -c [-d] ran and left stderr empty: it has written the
\* HTML of the source as it is now unless -d was given; compile_source
\* returns should_compile_res and execute_build inserts it into the cache
OsmlcOk ==
    /\ mk.pc = "osmlc"
    /\ LET src == Head(mk.sources)
           name == mk.should_compile_res[1][1]
           time == mk.should_compile_res[1][2]
       IN /\ dist' = IF mk.dryrun THEN dist
                     ELSE [dist EXCEPT ![src] = modified[src]]
          /\ mk' = [mk EXCEPT !.pc = "sources",
                              !.cache = [@ EXCEPT ![name] = time],
                              !.sources = Tail(mk.sources),
                              !.should_compile_res = None]
    /\ UNCHANGED <<pvars, excluded, modified, osml_cache>>

\* osmlc could not run or wrote to stderr (a parse error, a panic, a file
\* it could not open): process::exit(1), which drops nothing, so the cache
\* in memory is not written back
OsmlcError ==
    /\ mk.pc = "osmlc"
    /\ mk' = MkIdle
    /\ UNCHANGED <<pvars, excluded, modified, dist, osml_cache>>

\* The statics are done and cmd_build returns: build_ctx is dropped and
\* BuildCache::drop writes the cache to osml.cache
BuildReturns ==
    /\ mk.pc = "sources"
    /\ mk.sources = <<>>
    /\ osml_cache' = mk.cache
    /\ mk' = MkIdle
    /\ UNCHANGED <<pvars, excluded, modified, dist>>

\* The statics fail (list_statics, hard_link): process::exit(1) again
BuildExits ==
    /\ mk.pc = "sources"
    /\ mk.sources = <<>>
    /\ mk' = MkIdle
    /\ UNCHANGED <<pvars, excluded, modified, dist, osml_cache>>

\* cmd_clean: dist/ and osml.cache are removed
CmdClean ==
    /\ mk = MkIdle
    /\ dist' = [s \in SourceNames |-> NoEntry]
    /\ osml_cache' = [s \in SourceNames |-> NoEntry]
    /\ UNCHANGED <<pvars, excluded, modified, mk>>

\* The author saves a source, at any moment
WriteSource ==
    /\ \E s \in SourceNames :
          /\ modified[s] < MaxTime
          /\ \E t \in Times :
                /\ t > modified[s]
                /\ modified' = [modified EXCEPT ![s] = t]
    /\ UNCHANGED <<pvars, excluded, dist, osml_cache, mk>>

InitMake ==
    /\ FreshProject
    /\ excluded \in SUBSET SourceNames
    /\ ctx = {}
    /\ lines = <<>>
    /\ stack = <<>>
    /\ output = <<>>
    /\ ret = None
    /\ result = Running
    /\ build = "open"

NextMake ==
    \/ CmdBuild
    \/ CompileSource
    \/ OsmlcOk
    \/ OsmlcError
    \/ BuildReturns
    \/ BuildExits
    \/ CmdClean
    \/ WriteSource

SpecMake == InitMake /\ [][NextMake]_vars

\* C21: between commands, a source whose entry in the cache equals its
\* current modification time has its HTML in dist/, written by a compile of
\* that version.
C21_UpToDate ==
    mk = MkIdle =>
        \A s \in SourceNames :
            (osml_cache[s] # NoEntry /\ osml_cache[s] = modified[s])
                => dist[s] = modified[s]

====
